---- MODULE Spec2Model ----
(***************************************************************************)
(* Model of app.py: the MySQL type inference (DataTypeHandler), the schema *)
(* and batch loader (MySQLDataUploader) and the upload flow of main().     *)
(*                                                                         *)
(* Integers wider than 31 bits are kept as five base-65536 limbs (most     *)
(* significant first) with a sign and a half-unit fraction flag, so the    *)
(* thresholds 4294967295, -2147483648 and the 64-bit limits are exact.     *)
(***************************************************************************)
EXTENDS Integers, Sequences, FiniteSets, TLC

(* ------------------------------------------------------------------ *)
(* Bounds of the model                                                 *)
(* ------------------------------------------------------------------ *)
MaxSeriesLen == 2     \* values per column in the inference specification
MaxNameLen == 3       \* characters per generated column name
MaxRows == 2500       \* rows of the table in the batch specification
MaxLoads == 2         \* uploads (button clicks) per behaviour
MaxConnects == 2      \* connect attempts per behaviour
MaxListLen == 4       \* elements of a list or dict cell handed to _prepare_value

(* ------------------------------------------------------------------ *)
(* Numbers                                                             *)
(* ------------------------------------------------------------------ *)
Base == 256 * 256

\* a natural number below 2^31 as limbs
Limbs(n) == <<0, 0, 0, n \div Base, n % Base>>

M31 == <<0, 0, 0, 32767, 65535>>          \* 2^31 - 1 = 2147483647
P31 == <<0, 0, 0, 32768, 0>>              \* 2^31     = 2147483648
M32 == <<0, 0, 0, 65535, 65535>>          \* 2^32 - 1 = 4294967295
P32 == <<0, 0, 1, 0, 0>>                  \* 2^32
M63 == <<0, 32767, 65535, 65535, 65535>>  \* 2^63 - 1
P63 == <<0, 32768, 0, 0, 0>>              \* 2^63
M64 == <<0, 65535, 65535, 65535, 65535>>  \* 2^64 - 1
P64 == <<1, 0, 0, 0, 0>>                  \* 2^64

\* a number cell: (-1)^neg * (mag + frac/2)
Num(neg, mag, frac) == [kind |-> "num", neg |-> neg, mag |-> mag, frac |-> frac]
Pos(mag) == Num(FALSE, mag, 0)
Neg(mag) == Num(TRUE, mag, 0)
IntNum(n) == IF n >= 0 THEN Pos(Limbs(n)) ELSE Neg(Limbs(-n))
Half(n) == IF n >= 0 THEN Num(FALSE, Limbs(n), 1) ELSE Num(TRUE, Limbs(-n), 1)

RECURSIVE MagLess(_, _, _)
MagLess(a, b, k) ==
    IF k > Len(a) THEN FALSE
    ELSE IF a[k] # b[k] THEN a[k] < b[k]
    ELSE MagLess(a, b, k + 1)

\* |x| < |y|
AbsLess(x, y) ==
    \/ MagLess(x.mag, y.mag, 1)
    \/ x.mag = y.mag /\ x.frac < y.frac

NumLess(x, y) ==
    IF x.neg # y.neg THEN x.neg
    ELSE IF x.neg THEN AbsLess(y, x)
    ELSE AbsLess(x, y)

NumLeq(x, y) == x = y \/ NumLess(x, y)
NumGeq(x, y) == NumLeq(y, x)

NullCell == [kind |-> "null"]
StrCell(n) == [kind |-> "str", len |-> n]

IsNull(c) == c.kind = "null"

(* ------------------------------------------------------------------ *)
(* DataTypeHandler                                                     *)
(* ------------------------------------------------------------------ *)
type_mapping ==
    [k \in {"int8", "int16", "int32", "int64", "uint8", "uint16", "uint32",
            "uint64", "float32", "float64", "decimal", "object", "string",
            "category", "bool", "datetime64[ns]", "datetime64[ns, UTC]",
            "timedelta64[ns]", "date"} |->
        CASE k = "int8" -> "TINYINT"
          [] k = "int16" -> "SMALLINT"
          [] k = "int32" -> "INT"
          [] k = "int64" -> "BIGINT"
          [] k = "uint8" -> "TINYINT UNSIGNED"
          [] k = "uint16" -> "SMALLINT UNSIGNED"
          [] k = "uint32" -> "INT UNSIGNED"
          [] k = "uint64" -> "BIGINT UNSIGNED"
          [] k = "float32" -> "FLOAT"
          [] k = "float64" -> "DOUBLE"
          [] k = "decimal" -> "DECIMAL(65,30)"
          [] k = "object" -> "TEXT"
          [] k = "string" -> "TEXT"
          [] k = "category" -> "VARCHAR(255)"
          [] k = "bool" -> "BOOLEAN"
          [] k = "datetime64[ns]" -> "DATETIME"
          [] k = "datetime64[ns, UTC]" -> "DATETIME"
          [] k = "timedelta64[ns]" -> "TIME"
          [] k = "date" -> "DATE"]

\* pandas: the storage classes for which is_integer_dtype / is_numeric_dtype hold
IntegerDtypes ==
    {"int8", "int16", "int32", "int64", "uint8", "uint16", "uint32", "uint64",
     "Int8", "Int16", "Int32", "Int64", "UInt8", "UInt16", "UInt32", "UInt64"}
FloatDtypes == {"float16", "float32", "float64", "Float32", "Float64"}
is_integer_dtype(series) == series.dtype \in IntegerDtypes
is_numeric_dtype(series) ==
    series.dtype \in IntegerDtypes \cup FloatDtypes \cup {"bool", "boolean"}

\* series.dropna()
dropna(series) == SelectSeq(series.values, LAMBDA c : ~IsNull(c))

RECURSIVE SeqMaxLen(_)
SeqMaxLen(s) ==
    IF Len(s) = 1 THEN s[1].len
    ELSE LET r == SeqMaxLen(Tail(s)) IN IF s[1].len >= r THEN s[1].len ELSE r

RECURSIVE SeqMin(_)
SeqMin(s) ==
    IF Len(s) = 1 THEN s[1]
    ELSE LET r == SeqMin(Tail(s)) IN IF NumLeq(s[1], r) THEN s[1] ELSE r

RECURSIVE SeqMax(_)
SeqMax(s) ==
    IF Len(s) = 1 THEN s[1]
    ELSE LET r == SeqMax(Tail(s)) IN IF NumGeq(s[1], r) THEN s[1] ELSE r

\* float(x).is_integer()
is_integer(x) == x.frac = 0

_infer_string_type(series) ==
    LET non_null_values == dropna(series) IN
    IF Len(non_null_values) = 0 THEN "TEXT"
    ELSE LET max_length == SeqMaxLen(non_null_values) IN
         IF max_length <= 255 THEN "VARCHAR(" \o ToString(max_length) \o ")"
         ELSE IF max_length <= 65535 THEN "TEXT"
         ELSE IF max_length <= 16777215 THEN "MEDIUMTEXT"
         ELSE "LONGTEXT"

\* line 72, and the same line returning the 32-bit float type instead
AllNullType_Float == "FLOAT"
AllNullType == "DOUBLE"

\* line 78, and the same comparison written with < instead of <=
TinyUnsignedFits_Strict(max_val) == NumLess(max_val, IntNum(255))
TinyUnsignedFits(max_val) == NumLeq(max_val, IntNum(255))

_infer_numeric_type(series) ==
    IF \A k \in 1..Len(series.values) : IsNull(series.values[k]) THEN AllNullType
    ELSE
    LET non_null_values == dropna(series) IN
    IF \/ is_integer_dtype(series)
       \/ \A k \in 1..Len(non_null_values) : is_integer(non_null_values[k])
    THEN LET min_val == SeqMin(non_null_values)
             max_val == SeqMax(non_null_values) IN
         IF NumGeq(min_val, IntNum(0)) THEN
              IF TinyUnsignedFits(max_val) THEN "TINYINT UNSIGNED"
              ELSE IF NumLeq(max_val, IntNum(65535)) THEN "SMALLINT UNSIGNED"
              ELSE IF NumLeq(max_val, Pos(M32)) THEN "INT UNSIGNED"
              ELSE "BIGINT UNSIGNED"
         ELSE
              IF NumGeq(min_val, IntNum(-128)) /\ NumLeq(max_val, IntNum(127))
                  THEN "TINYINT"
              ELSE IF NumGeq(min_val, IntNum(-32768)) /\ NumLeq(max_val, IntNum(32767))
                  THEN "SMALLINT"
              ELSE IF NumGeq(min_val, Neg(P31)) /\ NumLeq(max_val, Pos(M31))
                  THEN "INT"
              ELSE "BIGINT"
    ELSE "DOUBLE"

\* the lookup of line 48-49, which precedes the string and numeric branches
DirectMapping(dtype_str) == dtype_str \in DOMAIN type_mapping

infer_mysql_type(series) ==
    LET dtype_str == series.dtype IN
    IF dtype_str \in {"datetime64[ns]", "datetime64[ns, UTC]"} THEN "DATETIME"
    ELSE IF dtype_str = "timedelta64[ns]" THEN "TIME"
    ELSE IF dtype_str = "date" THEN "DATE"
    ELSE IF DirectMapping(dtype_str) THEN type_mapping[dtype_str]
    ELSE IF dtype_str \in {"object", "string"} THEN _infer_string_type(series)
    ELSE IF is_numeric_dtype(series) THEN _infer_numeric_type(series)
    ELSE "TEXT"

(* ------------------------------------------------------------------ *)
(* Column-name normalization (create_table, line 121)                  *)
(* A name is a sequence of one-character strings.                      *)
(* ------------------------------------------------------------------ *)
UpperChars == <<"A", "B", "C", "D", "E", "F", "G", "H", "I", "J", "K", "L", "M",
                "N", "O", "P", "Q", "R", "S", "T", "U", "V", "W", "X", "Y", "Z">>
LowerChars == <<"a", "b", "c", "d", "e", "f", "g", "h", "i", "j", "k", "l", "m",
                "n", "o", "p", "q", "r", "s", "t", "u", "v", "w", "x", "y", "z">>
DigitChars == <<"0", "1", "2", "3", "4", "5", "6", "7", "8", "9">>

Range(f) == {f[k] : k \in DOMAIN f}

\* \w of the regular expression: letters, digits and the underscore
IsWordChar(c) == c \in Range(UpperChars) \cup Range(LowerChars) \cup Range(DigitChars) \cup {"_"}

\* str.lower(), a character at a time
LowerChar(c) ==
    IF c \in Range(UpperChars)
    THEN LowerChars[CHOOSE k \in DOMAIN UpperChars : UpperChars[k] = c]
    ELSE c
lower_KeepCase(col) == col
lower(col) == [k \in DOMAIN col |-> LowerChar(col[k])]

\* re.sub(r'[^\w]', '_', s): every character the class matches is replaced
re_sub(s) == [k \in DOMAIN s |-> IF IsWordChar(s[k]) THEN s[k] ELSE "_"]

clean_column(col) == re_sub(lower(col))
clean_columns_Reversed(columns) ==
    [k \in DOMAIN columns |-> clean_column(columns[Len(columns) + 1 - k])]
clean_columns(columns) == [k \in DOMAIN columns |-> clean_column(columns[k])]

OrderId == <<"O", "r", "d", "e", "r", " ", "I", "D", "#">>
NameChars == {"A", "b", "7", "_", " ", "#"}

(* ------------------------------------------------------------------ *)
(* The columns the inference is run on                                 *)
(* ------------------------------------------------------------------ *)
IntPool ==
    {IntNum(n) : n \in {0, 1, 3, 127, 128, 255, 256, 32767, 32768, 65535, 65536}}
    \cup {Pos(M31), Pos(P31), Pos(M32), Pos(P32), Pos(M63), Pos(P63), Pos(M64), Pos(P64)}
    \cup {IntNum(-1), IntNum(-128), IntNum(-129), IntNum(-32768), IntNum(-32769),
          Neg(P31), Neg(<<0, 0, 0, 32768, 1>>), Neg(P63), Neg(P64)}
FracPool == {Half(1), Half(-1), Half(255)}
StrPool == {StrCell(n) : n \in {0, 2, 10, 255, 256, 300, 65535, 65536, 16777215, 16777216}}

\* the values a fixed-width integer class can hold
IntRange(dtype) ==
    CASE dtype \in {"int8", "Int8"} -> <<IntNum(-128), IntNum(127)>>
      [] dtype \in {"int16", "Int16"} -> <<IntNum(-32768), IntNum(32767)>>
      [] dtype \in {"int32", "Int32"} -> <<Neg(P31), Pos(M31)>>
      [] dtype \in {"int64", "Int64"} -> <<Neg(P63), Pos(M63)>>
      [] dtype \in {"uint8", "UInt8"} -> <<IntNum(0), IntNum(255)>>
      [] dtype \in {"uint16", "UInt16"} -> <<IntNum(0), IntNum(65535)>>
      [] dtype \in {"uint32", "UInt32"} -> <<IntNum(0), Pos(M32)>>
      [] dtype \in {"uint64", "UInt64"} -> <<IntNum(0), Pos(M64)>>

\* the integers a binary float of the class represents exactly, among the pool
FloatHolds(dtype, v) ==
    LET small == IF dtype = "float16" THEN 2048 ELSE 65536 IN
    \/ NumLeq(IntNum(-small), v) /\ NumLeq(v, IntNum(small))
    \/ dtype \in {"float32", "Float32", "float64", "Float64"}
         /\ v.mag \in {P31, P32, P63, P64}
    \/ dtype \in {"float64", "Float64"} /\ v.mag \in {M31, M32, <<0, 0, 0, 32768, 1>>}

\* the classes whose missing-value marker can be stored
Nullable(dtype) ==
    dtype \in FloatDtypes \cup {"Int8", "Int16", "Int32", "Int64", "UInt8", "UInt16",
                               "UInt32", "UInt64", "boolean", "object", "string"}

Dtypes ==
    DOMAIN type_mapping \cup IntegerDtypes \cup FloatDtypes \cup {"boolean", "period[M]"}

ValuePool(dtype) ==
    (IF Nullable(dtype) THEN {NullCell} ELSE {})
    \cup
    (CASE dtype \in IntegerDtypes ->
            {v \in IntPool : NumLeq(IntRange(dtype)[1], v) /\ NumLeq(v, IntRange(dtype)[2])}
       [] dtype \in FloatDtypes ->
            {v \in IntPool \cup FracPool : FloatHolds(dtype, v)}
       [] dtype \in {"bool", "boolean"} -> {IntNum(0), IntNum(1)}
       [] dtype \in {"object", "string"} -> StrPool
       [] OTHER -> {StrCell(2)})


\* the sequences over S of length at most n
SeqsUpTo(S, n) == UNION {[1..m -> S] : m \in 0..n}

(* ------------------------------------------------------------------ *)
(* MySQLDataUploader: value preparation, statements, backend           *)
(* ------------------------------------------------------------------ *)
batch_size == 1000

\* line 147: range(0, total_rows, batch_size) starts at row 0, and the same
\* loop starting at the second batch
range_start_Second == batch_size
range_start == 0

\* a cell of the DataFrame, by its Python class; a list carries its length,
\* whether its first element is missing, and whether json can encode it
Cell(kind) == [kind |-> kind, n |-> 0, first_null |-> FALSE, json_ok |-> TRUE]
ListCell(n, first_null) == [kind |-> "list", n |-> n, first_null |-> first_null, json_ok |-> TRUE]
Outcome(exc, out) == [exc |-> exc, out |-> out]

\* pd.isna(value) used as a condition: "True", "False", or the exception that
\* bool() of the returned element-wise array raises
isna_truth(value) ==
    CASE value.kind = "None" -> {"True"}
      [] value.kind \in {"nan", "NaT"} -> {"True"}
      [] value.kind = "list" /\ value.n = 1 ->
            {IF value.first_null THEN "True" ELSE "False"}
      [] value.kind = "list" /\ value.n >= 2 -> {"ValueError"}
      [] value.kind = "list" /\ value.n = 0 -> {"False", "ValueError"}
      [] OTHER -> {"False"}

\* the set of outcomes of _prepare_value(value)
_prepare_value(value) ==
    {IF t = "ValueError" THEN Outcome("ValueError", "")
     ELSE IF t = "True" THEN Outcome("", "None")
     ELSE IF value.kind \in {"datetime", "Timestamp"} THEN Outcome("", "%Y-%m-%d %H:%M:%S")
     ELSE IF value.kind = "date" THEN Outcome("", "%Y-%m-%d")
     ELSE IF value.kind = "Decimal" THEN Outcome("", "float")
     ELSE IF value.kind = "np.integer" THEN Outcome("", "int")
     ELSE IF value.kind = "np.floating" THEN Outcome("", "float")
     ELSE IF value.kind \in {"dict", "list"}
          THEN IF value.json_ok THEN Outcome("", "json") ELSE Outcome("TypeError", "")
     ELSE Outcome("", value.kind)
     : t \in isna_truth(value)}

Min(a, b) == IF a <= b THEN a ELSE b

\* df.iloc[i:i + batch_size] as the half-open row interval it selects
BatchSlice_Short(i, total_rows) == <<i, Min(i + batch_size - 1, total_rows)>>
BatchSlice(i, total_rows) == <<i, Min(i + batch_size, total_rows)>>

\* fractions as <<numerator, denominator>>
RatLeq(a, b) == a[1] * b[2] <= b[1] * a[2]
RatEq(a, b) == a[1] * b[2] = b[1] * a[2]
RatMin(a, b) == IF RatLeq(a, b) THEN a ELSE b

\* progress = min(1.0, (i + batch_size) / total_rows)
ProgressAfter_NoMin(i, total_rows) == <<i + batch_size, total_rows>>
ProgressAfter(i, total_rows) == RatMin(<<1, 1>>, <<i + batch_size, total_rows>>)

\* what the handlers of mysql.connector.Error return (lines 137 and 158)
ErrorResult_True == "True"
ErrorResult == "False"

\* main, lines 258-259: insert_data is called only if create_table returned True
ProceedToInsert_Always(result) == TRUE
ProceedToInsert(result) == result = "True"

\* the CREATE TABLE statement of lines 127-131
CreateQuery_Plain(table, column_defs) ==
    [if_not_exists |-> FALSE, table |-> table, defs |-> column_defs]
CreateQuery(table, column_defs) ==
    [if_not_exists |-> TRUE, table |-> table, defs |-> column_defs]

\* df[col]: a Series when one column carries the label, a DataFrame (which
\* has no dtype attribute) when several do
Ambiguous(columns) ==
    \E j, k \in DOMAIN columns : j # k /\ columns[j] = columns[k]

column_defs(frame) ==
    [k \in DOMAIN frame.columns |-> <<frame.columns[k], infer_mysql_type(frame.series[k])>>]

\* the server: the target table's columns (<<>> while it does not exist) and
\* its committed rows, as intervals of row indices of the uploaded table
ExecCreate(base, q) ==
    IF base.table_cols # <<>>
    THEN IF q.if_not_exists THEN [err |-> "", table_cols |-> base.table_cols]
         ELSE [err |-> "1050 table exists", table_cols |-> base.table_cols]
    ELSE [err |-> "", table_cols |-> q.defs]

\* INSERT INTO t (columns): every listed column must be one of the table
InsertAccepted(base, columns) ==
    /\ base.table_cols # <<>>
    /\ \A k \in DOMAIN columns :
          \E j \in DOMAIN base.table_cols : base.table_cols[j][1] = columns[k]

\* the INSERT statement of lines 141-143: the DataFrame's labels and one
\* %s placeholder per label
InsertQuery_OnePlaceholder(table, columns) ==
    [table |-> table, columns |-> columns, placeholders |-> 1]
InsertQuery(table, columns) ==
    [table |-> table, columns |-> columns, placeholders |-> Len(columns)]

\* no statement built yet
NoCreateQuery == [if_not_exists |-> FALSE, table |-> "", defs |-> <<>>]
NoInsertQuery == [table |-> "", columns |-> <<>>, placeholders |-> 0]

Call(op, err, lo, hi) == [op |-> op, err |-> err, lo |-> lo, hi |-> hi]

(* ------------------------------------------------------------------ *)
(* The uploaded tables of the loader specifications                    *)
(* ------------------------------------------------------------------ *)
Qty == <<"Q", "t", "y">>
A_B == <<"a", " ", "b">>
a_b == <<"a", "_", "b">>
\* read_csv / read_excel give int64, float64, object, bool and datetime64[ns]
\* columns: classes with a direct mapping, whose values do not enter the type
ColumnOf(dtype) == [dtype |-> dtype, values |-> <<>>]
Headers ==
    {[columns |-> <<OrderId, Qty>>, series |-> <<ColumnOf("object"), ColumnOf("int64")>>],
     [columns |-> <<A_B, a_b>>, series |-> <<ColumnOf("float64"), ColumnOf("object")>>]}

NoOdd == [row |-> -1, cell |-> Cell("np.integer")]
\* every cell is a numpy integer but at most one
OddChoices(total_rows) ==
    {NoOdd}
    \cup {[row |-> r, cell |-> ListCell(2, FALSE)] : r \in {r \in {0, batch_size} : r < total_rows}}
    \cup {[row |-> r, cell |-> Cell("dict")] : r \in {r \in {0} : r < total_rows}}

SmallRowCounts == {0, 1, batch_size, batch_size + 1, 2 * batch_size + 1}

Frame(h, total_rows, odd) ==
    [columns |-> h.columns, series |-> h.series, total_rows |-> total_rows, odd |-> odd]

\* a table that exists before the first load, with columns of its own
ForeignCols == <<<<<<"i", "d">>, "INT">>>>

VARIABLES
    series,         \* the column handed to infer_mysql_type
    inferred,       \* the type string it returned
    col,            \* the column identifier handed to the normalization
    clean,          \* the identifier it produced
    value,          \* the cell handed to _prepare_value
    prep_result,       \* what it returned or raised
    fn_pc,          \* "call" before the call, "returned" after it, "off" when unused
    file,           \* the uploaded file's table, as every rerun of main reads it
    df,             \* the DataFrame of the current rerun
    table_name,     \* the table name typed by the user
    pc,             \* "ui", "create_table", "insert_data" (called), "for" (in its loop)
    i,              \* the loop variable of insert_data
    create_result,  \* what create_table returned: "none", "True", "False", "raised"
    insert_result,  \* what insert_data returned
    create_query,   \* the CREATE TABLE statement built by the current load
    insert_query,   \* the INSERT statement built by the current load
    ops,            \* the calls the server received during the current load
    prior,          \* the calls it received during each earlier load
    progress,       \* the values handed to the progress bar during the current load
    messages,       \* what the page shows since the last user event
    load,           \* the number of loads started
    db,             \* the server: table_cols and persisted rows of the target table
    uploaders,      \* every MySQLDataUploader built so far, with its open transaction
    stored,         \* st.session_state['uploader'] as an index of uploaders, 0 if absent
    budget          \* how many loads and connects the behaviour may make

fn_vars == <<series, inferred, col, clean, value, prep_result, fn_pc>>
main_vars == <<file, df, table_name, pc, i, create_result, insert_result,
               create_query, insert_query, ops, prior, progress, messages,
               load, db, uploaders, stored, budget>>
vars == <<fn_vars, main_vars>>

NoSeries == [dtype |-> "object", values |-> <<>>]
FnOff ==
    /\ series = NoSeries
    /\ inferred = ""
    /\ col = <<>>
    /\ clean = <<>>
    /\ value = Cell("None")
    /\ prep_result = Outcome("", "")
    /\ fn_pc = "off"

EmptyBase == [table_cols |-> <<>>, persisted |-> <<>>]
PlainHeader == [columns |-> <<OrderId, Qty>>, series |-> <<ColumnOf("object"), ColumnOf("int64")>>]

\* the state after main's first run: no uploader, nothing uploaded
StartOfSession ==
    /\ df = file
    /\ table_name = ""
    /\ pc = "ui"
    /\ i = 0
    /\ create_result = "none"
    /\ insert_result = "none"
    /\ create_query = NoCreateQuery
    /\ insert_query = NoInsertQuery
    /\ ops = <<>>
    /\ prior = <<>>
    /\ progress = <<>>
    /\ messages = <<>>
    /\ load = 0
    /\ uploaders = <<>>
    /\ stored = 0

MainOff ==
    /\ file = Frame(PlainHeader, 0, NoOdd)
    /\ db = EmptyBase
    /\ budget = [loads |-> 0, connects |-> 0]
    /\ StartOfSession

(* ------------------------------------------------------------------ *)
(* Specification of the type inference: one call on any column         *)
(* ------------------------------------------------------------------ *)
InitInfer ==
    /\ \E d \in Dtypes, m \in 0..MaxSeriesLen :
          \E vs \in [1..m -> ValuePool(d)] : series = [dtype |-> d, values |-> vs]
    /\ inferred = ""
    /\ col = <<>>
    /\ clean = <<>>
    /\ value = Cell("None")
    /\ prep_result = Outcome("", "")
    /\ fn_pc = "call"
    /\ MainOff

InferType ==
    /\ fn_pc = "call"
    /\ inferred' = infer_mysql_type(series)
    /\ fn_pc' = "returned"
    /\ UNCHANGED <<series, col, clean, value, prep_result, main_vars>>

NextInfer == InferType

SpecInfer == InitInfer /\ [][NextInfer]_vars

(* ------------------------------------------------------------------ *)
(* Specification of the name normalization: one call on any identifier *)
(* ------------------------------------------------------------------ *)
InitNames ==
    /\ series = NoSeries
    /\ inferred = ""
    /\ col \in SeqsUpTo(NameChars, MaxNameLen) \cup {OrderId}
    /\ clean = <<>>
    /\ value = Cell("None")
    /\ prep_result = Outcome("", "")
    /\ fn_pc = "call"
    /\ MainOff

NormalizeName ==
    /\ fn_pc = "call"
    /\ clean' = clean_column(col)
    /\ fn_pc' = "returned"
    /\ UNCHANGED <<series, inferred, col, value, prep_result, main_vars>>

NextNames == NormalizeName

SpecNames == InitNames /\ [][NextNames]_vars

(* ------------------------------------------------------------------ *)
(* Specification of the value preparation: one call on any cell        *)
(* ------------------------------------------------------------------ *)
ScalarKinds ==
    {"None", "nan", "NaT", "datetime", "Timestamp", "date", "Decimal",
     "np.integer", "np.floating", "str", "int", "float", "bool"}
\* lists, tuples and dicts of up to MaxListLen elements; json_ok tells
\* whether json.dumps can encode every element
StructuredCells ==
    {[kind |-> k, n |-> n, first_null |-> f, json_ok |-> j] :
        k \in {"list", "tuple", "dict"}, n \in 0..MaxListLen,
        f \in BOOLEAN, j \in BOOLEAN}
CellPool ==
    {Cell(k) : k \in ScalarKinds}
        \cup {c \in StructuredCells : c.n = 0 => (~c.first_null /\ c.json_ok)}

InitPrepare ==
    /\ series = NoSeries
    /\ inferred = ""
    /\ col = <<>>
    /\ clean = <<>>
    /\ value \in CellPool
    /\ prep_result = Outcome("", "")
    /\ fn_pc = "call"
    /\ MainOff

PrepareValue ==
    /\ fn_pc = "call"
    /\ prep_result' \in _prepare_value(value)
    /\ fn_pc' = "returned"
    /\ UNCHANGED <<series, inferred, col, clean, value, main_vars>>

NextPrepare == PrepareValue

SpecPrepare == InitPrepare /\ [][NextPrepare]_vars

(* ------------------------------------------------------------------ *)
(* The upload flow of main and the loader                              *)
(* ------------------------------------------------------------------ *)
\* a new MySQLDataUploader after its connect(): what connect() returned, the
\* rows of its open transaction, and whether its session is open (opened by
\* connect() and not ended by close())
Uploader(connected) == [connected |-> connected, pending |-> <<>>, open |-> connected]

\* lines 113-117: close() ends the session if there is one
close(u) == IF u.open THEN [u EXCEPT !.open = FALSE, !.pending = <<>>] ELSE u

\* lines 223-225: st.session_state['uploader'] after a connect attempt, given
\* what connect() returned, the new uploader and the one stored before
StoredAfter_Always(ok, new, old) == new
StoredAfter_OnlyFirst(ok, new, old) == IF ok /\ old = 0 THEN new ELSE old
StoredAfter(ok, new, old) == IF ok THEN new ELSE old

\* lines 214-225: the connection form is submitted
Connect ==
    /\ pc = "ui"
    /\ Len(uploaders) < budget.connects
    /\ \E ok \in BOOLEAN :
          /\ uploaders' = Append(uploaders, Uploader(ok))
          /\ stored' = StoredAfter(ok, Len(uploaders) + 1, stored)
          /\ messages' = IF ok THEN <<"Connected successfully!">>
                         ELSE <<"Connection Error">>
    /\ df' = file
    /\ UNCHANGED <<fn_vars, file, table_name, pc, i, create_result,
                   insert_result, create_query, insert_query, ops, prior,
                   progress, load, db, budget>>

\* lines 253-255: the upload button is pressed with no table name
ClickUploadNoName ==
    /\ pc = "ui"
    /\ stored # 0
    /\ table_name' = ""
    /\ df' = file
    /\ messages' = <<"Please enter a valid table name.">>
    /\ UNCHANGED <<fn_vars, file, pc, i, create_result, insert_result,
                   create_query, insert_query, ops, prior, progress, load,
                   db, uploaders, stored, budget>>

\* lines 232-257: the upload button is pressed with a table name; the rerun
\* reads the file into a new DataFrame and takes the stored uploader
ClickUpload ==
    /\ pc = "ui"
    /\ stored # 0
    /\ load < budget.loads
    /\ table_name' = "t"
    /\ df' = file
    /\ load' = load + 1
    /\ pc' = "create_table"
    /\ i' = 0
    /\ create_result' = "none"
    /\ insert_result' = "none"
    /\ create_query' = NoCreateQuery
    /\ insert_query' = NoInsertQuery
    /\ ops' = <<>>
    /\ prior' = IF load = 0 THEN prior ELSE Append(prior, ops)
    /\ progress' = <<>>
    /\ messages' = <<>>
    /\ UNCHANGED <<fn_vars, file, db, uploaders, stored, budget>>

\* lines 119-137 and the test of line 258
CreateTable ==
    /\ pc = "create_table"
    /\ LET cols == clean_columns(df.columns)
           frame == [df EXCEPT !.columns = cols]
       IN
       /\ df' = frame
       /\ IF Ambiguous(cols)
          THEN \* series.dtype on a DataFrame: AttributeError, not a mysql Error
               /\ create_result' = "raised"
               /\ messages' = Append(messages, "Error processing file")
               /\ pc' = "ui"
               /\ UNCHANGED <<create_query, ops, db, uploaders>>
          ELSE \E fault \in {"none", "execute", "commit"} :
               LET q == CreateQuery(table_name, column_defs(frame))
                   r == ExecCreate(db, q)
                   failed == fault = "execute" \/ r.err # ""
                   result == IF failed \/ fault = "commit" THEN ErrorResult ELSE "True"
               IN
               /\ fault = "execute" => r.err = ""
               /\ create_query' = q
               /\ create_result' = result
               /\ pc' = IF ProceedToInsert(result) THEN "insert_data" ELSE "ui"
               /\ IF failed
                  THEN /\ ops' = Append(ops, Call("execute",
                                   IF r.err # "" THEN r.err ELSE "fault", 0, 0))
                       /\ messages' = Append(messages, "Table Creation Error")
                       /\ UNCHANGED <<db, uploaders>>
                  ELSE \* the statement ends the open transaction (implicit commit)
                       /\ db' = [table_cols |-> r.table_cols,
                                 persisted |-> db.persisted \o uploaders[stored].pending]
                       /\ uploaders' = [uploaders EXCEPT ![stored].pending = <<>>]
                       /\ ops' = ops \o <<Call("execute", "", 0, 0),
                                  Call("commit", IF fault = "commit" THEN "fault" ELSE "", 0, 0)>>
                       /\ messages' = IF fault = "commit"
                                      THEN Append(messages, "Table Creation Error")
                                      ELSE messages
    /\ UNCHANGED <<fn_vars, file, table_name, i, insert_result, insert_query,
                   prior, progress, load, stored, budget>>

\* lines 141-146: the statement is built and the progress bar created at 0
InsertBegin ==
    /\ pc = "insert_data"
    /\ insert_query' = InsertQuery(table_name, df.columns)
    /\ progress' = <<<<0, 1>>>>
    /\ i' = range_start
    /\ pc' = "for"
    /\ UNCHANGED <<fn_vars, file, df, table_name, create_result, insert_result,
                   create_query, ops, prior, messages, load, db, uploaders,
                   stored, budget>>

\* lines 147-153 and 156-158: one iteration of the loop
InsertBatch ==
    /\ pc = "for"
    /\ i < df.total_rows
    /\ LET batch == BatchSlice(i, df.total_rows)
           odd_in == batch[1] <= df.odd.row /\ df.odd.row < batch[2]
           prepared == IF odd_in THEN _prepare_value(df.odd.cell)
                       ELSE _prepare_value(Cell("np.integer"))
           pending == uploaders[stored].pending \o <<batch>>
       IN
       \E o \in prepared :
          IF o.exc # ""
          THEN \* not a mysql Error: leaves insert_data, caught at line 261
               /\ insert_result' = "raised"
               /\ messages' = Append(messages, "Error processing file")
               /\ pc' = "ui"
               /\ UNCHANGED <<i, ops, progress, db, uploaders>>
          ELSE \E fault \in {"none", "executemany", "commit", "commit lost"} :
               IF fault = "executemany" \/ ~InsertAccepted(db, insert_query.columns)
               THEN /\ fault = "executemany"
                    /\ ops' = Append(ops, Call("executemany",
                                IF InsertAccepted(db, insert_query.columns) THEN "fault"
                                ELSE "1054 unknown column", batch[1], batch[2]))
                    /\ insert_result' = ErrorResult
                    /\ messages' = Append(messages, "Data Insertion Error")
                    /\ pc' = "ui"
                    /\ UNCHANGED <<i, progress, db, uploaders>>
               ELSE IF fault \in {"commit", "commit lost"}
               THEN /\ ops' = ops \o <<Call("executemany", "", batch[1], batch[2]),
                                       Call("commit", "fault", batch[1], batch[2])>>
                    \* the transaction stays open, or is gone with the connection
                    /\ uploaders' = [uploaders EXCEPT ![stored].pending =
                                        IF fault = "commit" THEN pending ELSE <<>>]
                    /\ insert_result' = ErrorResult
                    /\ messages' = Append(messages, "Data Insertion Error")
                    /\ pc' = "ui"
                    /\ UNCHANGED <<i, progress, db>>
               ELSE /\ ops' = ops \o <<Call("executemany", "", batch[1], batch[2]),
                                       Call("commit", "", batch[1], batch[2])>>
                    /\ db' = [db EXCEPT !.persisted = db.persisted \o pending]
                    /\ uploaders' = [uploaders EXCEPT ![stored].pending = <<>>]
                    /\ progress' = Append(progress, ProgressAfter(i, df.total_rows))
                    /\ i' = i + batch_size
                    /\ UNCHANGED <<insert_result, messages, pc>>
    /\ UNCHANGED <<fn_vars, file, df, table_name, create_result, create_query,
                   insert_query, prior, load, stored, budget>>

\* lines 154-155 and 260: the loop is over
InsertEnd ==
    /\ pc = "for"
    /\ i >= df.total_rows
    /\ progress' = Append(progress, <<1, 1>>)
    /\ insert_result' = "True"
    /\ messages' = Append(messages, "Successfully uploaded")
    /\ pc' = "ui"
    /\ UNCHANGED <<fn_vars, file, df, table_name, i, create_result,
                   create_query, insert_query, ops, prior, load, db,
                   uploaders, stored, budget>>

Next ==
    \/ Connect
    \/ ClickUploadNoName
    \/ ClickUpload
    \/ CreateTable
    \/ InsertBegin
    \/ InsertBatch
    \/ InsertEnd

\* any of a few small tables, against a server with or without the table
Init ==
    /\ FnOff
    /\ \E h \in Headers, n \in SmallRowCounts :
          \E odd \in OddChoices(n) : file = Frame(h, n, odd)
    /\ db \in {EmptyBase, [table_cols |-> ForeignCols, persisted |-> <<>>]}
    /\ budget = [loads |-> MaxLoads, connects |-> MaxConnects]
    /\ StartOfSession

Spec == Init /\ [][Next]_vars

\* a rerun of main runs to its end: once the upload button is handled, the
\* calls of create_table and insert_data follow without waiting for the user
RerunCompletes ==
    /\ WF_vars(CreateTable)
    /\ WF_vars(InsertBegin)
    /\ WF_vars(InsertBatch)
    /\ WF_vars(InsertEnd)

SpecLive == Init /\ [][Next]_vars /\ RerunCompletes

\* one load of a table of any number of rows up to MaxRows
InitBatch ==
    /\ FnOff
    /\ \E n \in 0..MaxRows : file = Frame(PlainHeader, n, NoOdd)
    /\ db = EmptyBase
    /\ budget = [loads |-> 1, connects |-> 1]
    /\ StartOfSession

SpecBatch == InitBatch /\ [][Next]_vars

\* the state of the load as the specification names it
Phase ==
    IF insert_result = "True" THEN "Committed"
    ELSE IF create_result \in {"False", "raised"} \/ insert_result \in {"False", "raised"}
         THEN "Failed"
    ELSE IF pc = "for" THEN "Inserting"
    ELSE IF create_result = "True" THEN "SchemaCreated"
    ELSE "Idle"

(* ------------------------------------------------------------------ *)
(* Claims about the type inference                                     *)
(* ------------------------------------------------------------------ *)
Returned == fn_pc = "returned"
NonNull == dropna(series)
AllIntegral == \A k \in 1..Len(NonNull) : NonNull[k].frac = 0
NoNulls == Len(NonNull) = Len(series.values)

\* the tiers as the claim states them
ClaimedTextType(L) ==
    IF L <= 255 THEN "VARCHAR(" \o ToString(L) \o ")"
    ELSE IF L <= 65535 THEN "TEXT"
    ELSE IF L <= 16777215 THEN "MEDIUMTEXT"
    ELSE "LONGTEXT"

\* C4: a text/object column with a non-null value gets the type of the tier of
\* its maximum stringified length L: VARCHAR(L) up to 255, TEXT up to 65535,
\* MEDIUMTEXT up to 16777215, LONGTEXT above.
C4_TextTierByMaxLength ==
    (Returned /\ series.dtype \in {"object", "string"} /\ Len(NonNull) > 0)
        => inferred = ClaimedTextType(SeqMaxLen(NonNull))

\* the integer and floating storage classes, and those without a direct mapping
C5_NumericClasses == IntegerDtypes \cup FloatDtypes
C5_UnmappedClasses ==
    {"Int8", "Int16", "Int32", "Int64", "UInt8", "UInt16", "UInt32", "UInt64",
     "float16", "Float32", "Float64"}

\* C5 as stated: every numeric column without nulls whose values are integral
\* and within [0, 255] is TINYINT UNSIGNED, whatever its storage class.
C5_AnyClassTinyUnsigned ==
    (/\ Returned
     /\ series.dtype \in C5_NumericClasses
     /\ Len(series.values) > 0 /\ NoNulls /\ AllIntegral
     /\ NumGeq(SeqMin(NonNull), IntNum(0)) /\ NumLeq(SeqMax(NonNull), IntNum(255)))
        => inferred = "TINYINT UNSIGNED"

\* C5 amended: for a numeric column of a storage class without a direct mapping,
\* with at least one value, no nulls, integral values and minimum >= 0: a maximum
\* of at most 255 gives TINYINT UNSIGNED and a maximum of 256 SMALLINT UNSIGNED;
\* a column of a directly mapped class gets the mapped type of its class.
C5_UnmappedTinyUnsigned ==
    (/\ Returned
     /\ series.dtype \in C5_NumericClasses
     /\ Len(series.values) > 0 /\ NoNulls /\ AllIntegral
     /\ NumGeq(SeqMin(NonNull), IntNum(0)))
        => IF series.dtype \in C5_UnmappedClasses
           THEN /\ NumLeq(SeqMax(NonNull), IntNum(255)) => inferred = "TINYINT UNSIGNED"
                /\ SeqMax(NonNull) = IntNum(256) => inferred = "SMALLINT UNSIGNED"
           ELSE inferred = type_mapping[series.dtype]

C5_Witness ==
    /\ Returned
    /\ series = [dtype |-> "Int64", values |-> <<IntNum(0), IntNum(255)>>]
    /\ inferred = "TINYINT UNSIGNED"

\* the value ranges of MySQL's integer types, narrowest first
UnsignedTypes == <<"TINYINT UNSIGNED", "SMALLINT UNSIGNED", "INT UNSIGNED", "BIGINT UNSIGNED">>
SignedTypes == <<"TINYINT", "SMALLINT", "INT", "BIGINT">>
TypeRange(t) ==
    CASE t = "TINYINT UNSIGNED" -> <<IntNum(0), IntNum(255)>>
      [] t = "SMALLINT UNSIGNED" -> <<IntNum(0), IntNum(65535)>>
      [] t = "INT UNSIGNED" -> <<IntNum(0), Pos(M32)>>
      [] t = "BIGINT UNSIGNED" -> <<IntNum(0), Pos(M64)>>
      [] t = "TINYINT" -> <<IntNum(-128), IntNum(127)>>
      [] t = "SMALLINT" -> <<IntNum(-32768), IntNum(32767)>>
      [] t = "INT" -> <<Neg(P31), Pos(M31)>>
      [] t = "BIGINT" -> <<Neg(P63), Pos(M63)>>
Covers(t, lo, hi) == NumLeq(TypeRange(t)[1], lo) /\ NumLeq(hi, TypeRange(t)[2])

\* C16: for a column of a numeric class without a direct mapping and with a
\* non-null value: if every non-null value is integral, the inferred type is
\* of the unsigned table when min >= 0 and of the signed table otherwise, its
\* range contains [min, max] and no narrower type of that table contains it,
\* whatever the range; if some value has a fractional part, it is DOUBLE.
C16_NarrowestCoveringType ==
    (Returned /\ series.dtype \in C5_UnmappedClasses /\ Len(NonNull) > 0) =>
        IF AllIntegral
        THEN LET table == IF NumGeq(SeqMin(NonNull), IntNum(0))
                          THEN UnsignedTypes ELSE SignedTypes
             IN \E k \in DOMAIN table :
                   /\ inferred = table[k]
                   /\ Covers(table[k], SeqMin(NonNull), SeqMax(NonNull))
                   /\ \A j \in 1..(k - 1) :
                         ~Covers(table[j], SeqMin(NonNull), SeqMax(NonNull))
        ELSE inferred = "DOUBLE"

AllNull == Len(series.values) > 0 /\ Len(NonNull) = 0

\* C6 as stated: an all-null numeric column is DOUBLE whatever its storage class.
C6_AllNullIsDouble ==
    (Returned /\ is_numeric_dtype(series) /\ AllNull) => inferred = "DOUBLE"

\* C6 amended: an all-null numeric column (with at least one value) is DOUBLE,
\* except a 32-bit float (float32) column, which gets its direct mapping FLOAT.
C6_AllNullIsDoubleButFloat32 ==
    (Returned /\ is_numeric_dtype(series) /\ AllNull)
        => inferred = IF series.dtype = "float32" THEN "FLOAT" ELSE "DOUBLE"

C6_Witness ==
    /\ Returned
    /\ series = [dtype |-> "Int8", values |-> <<NullCell, NullCell>>]
    /\ inferred = "DOUBLE"

(* ------------------------------------------------------------------ *)
(* Claims about the loader                                             *)
(* ------------------------------------------------------------------ *)
Submitted == SelectSeq(ops, LAMBDA c : c.op = "executemany")
InsertCall(c) == c.op \in {"executemany", "commit"} /\ c.hi > c.lo
RowsOfBatch(k) == <<k * batch_size, (k + 1) * batch_size>>

\* C1: when the submission or the commit of batch k fails, the rows of every
\* batch before k are persisted, the failed call is the last one the server
\* receives in the load, and insert_data has returned False, not True.
C1_FailedBatchAborts ==
    \A p \in 1..Len(ops) :
        (InsertCall(ops[p]) /\ ops[p].err # "") =>
            /\ p = Len(ops)
            /\ pc = "ui"
            /\ insert_result = "False"
            /\ ~(\E m \in 1..Len(messages) : messages[m] = "Successfully uploaded")
            /\ \A k \in 0..((ops[p].lo \div batch_size) - 1) :
                   RowsOfBatch(k) \in Range(db.persisted)

\* the second batch's commit failed and a third batch was due
C1_Witness ==
    /\ df.total_rows > 2 * batch_size
    /\ Len(ops) = 6
    /\ ops[6].op = "commit" /\ ops[6].err # "" /\ ops[6].lo = batch_size
    /\ insert_result = "False"
    /\ db.persisted = <<RowsOfBatch(0)>>

\* C2: the batches submitted by insert_data are contiguous, start at row 0, are
\* in ascending order, hold exactly batch_size rows each but possibly the last,
\* are never empty, and on success end at row N: they partition 0..N-1.
C2_BatchesPartitionRows ==
    LET subs == Submitted
        n == df.total_rows
    IN
    /\ \A j \in 1..Len(subs) :
          /\ subs[j].lo < subs[j].hi
          /\ subs[j].hi <= n
          /\ subs[j].lo = IF j = 1 THEN 0 ELSE subs[j - 1].hi
          /\ j < Len(subs) => subs[j].hi - subs[j].lo = batch_size
          /\ subs[j].hi - subs[j].lo <= batch_size
    /\ insert_result = "True" =>
          IF n = 0 THEN Len(subs) = 0 ELSE Len(subs) > 0 /\ subs[Len(subs)].hi = n

C2_Witness ==
    /\ insert_result = "True"
    /\ df.total_rows = 2 * batch_size + 1
    /\ Len(Submitted) = 3
    /\ Submitted[3].lo = 2 * batch_size /\ Submitted[3].hi = 2 * batch_size + 1

\* C3: no failure leaves create_table or insert_data as an exception: each
\* call ends with True or False.
C3_NoUncaughtFault ==
    /\ create_result # "raised"
    /\ insert_result # "raised"

\* C7: the progress values are fractions with a non-zero denominator, within
\* [0, 1] and non-decreasing; the value after the k-th batch is the number of
\* rows submitted so far over N, that is min(1, (i + batch_size) / N); a
\* successful load ends with exactly 1, also for N = 0; N = 2500 gives
\* 0.4, 0.8, 1.0 for its three batches.
C7_ProgressFractions ==
    LET n == df.total_rows
        subs == Submitted
    IN
    /\ \A k \in 1..Len(progress) :
          /\ progress[k][2] > 0
          /\ RatLeq(<<0, 1>>, progress[k]) /\ RatLeq(progress[k], <<1, 1>>)
          /\ k > 1 => RatLeq(progress[k - 1], progress[k])
    /\ Len(progress) > 0 => progress[1] = <<0, 1>>
    /\ \A k \in 1..Len(subs) :
          (k < Len(subs) \/ ops[Len(ops)].err = "") =>
              /\ Len(progress) >= k + 1
              /\ RatEq(progress[k + 1], <<subs[k].hi, n>>)
              /\ RatEq(progress[k + 1], RatMin(<<1, 1>>, <<subs[k].lo + batch_size, n>>))
    /\ insert_result = "True" =>
          /\ progress[Len(progress)] = <<1, 1>>
          /\ Len(progress) = Len(subs) + 2
          /\ RatEq(progress[Len(progress) - 1], IF n = 0 THEN <<0, 1>> ELSE <<1, 1>>)
          /\ n = 2500 => /\ RatEq(progress[2], <<4, 10>>)
                         /\ RatEq(progress[3], <<8, 10>>)
                         /\ RatEq(progress[4], <<10, 10>>)

C7_Witness ==
    /\ df.total_rows = 2500
    /\ insert_result = "True"
    /\ Len(progress) = 5

\* the calls of one load in the order the state machine allows
OpsInOrder ==
    /\ \A p \in 1..Len(ops) :
          /\ p < Len(ops) => ops[p].err = ""
          /\ p = 1 => ops[p].op = "execute"
          /\ p = 2 => ops[p].op = "commit" /\ ops[p].hi = 0
          /\ (p > 2 /\ p % 2 = 1) =>
                /\ ops[p].op = "executemany"
                /\ ops[p].lo = ((p - 3) \div 2) * batch_size
                /\ ops[p].lo < ops[p].hi
          /\ (p > 2 /\ p % 2 = 0) =>
                /\ ops[p].op = "commit"
                /\ ops[p].lo = ops[p - 1].lo /\ ops[p].hi = ops[p - 1].hi
    /\ create_result # "True" => Len(ops) <= 2
    /\ Phase \in {"Committed", "Failed"} => pc = "ui"
    /\ Phase = "Committed" => create_result = "True" /\ Len(ops) % 2 = 0
PhaseArrows ==
    {<<"Idle", "SchemaCreated">>, <<"Idle", "Failed">>,
     <<"SchemaCreated", "Inserting">>,
     <<"Inserting", "Committed">>, <<"Inserting", "Failed">>}

\* C8: in every load the server receives CREATE TABLE and its commit, then per
\* batch, in ascending order of offset, one submission and its commit; nothing
\* follows a failed call and no batch follows a failed schema creation; the
\* load moves along Idle -> SchemaCreated -> Inserting -> Committed or Failed,
\* and once Committed or Failed nothing of it changes until a new load starts.
C8_LoadStateMachine ==
    [][/\ OpsInOrder'
       /\ load' = load =>
             /\ Phase' = Phase \/ <<Phase, Phase'>> \in PhaseArrows
             /\ Phase \in {"Committed", "Failed"} =>
                   UNCHANGED <<ops, progress, create_result, insert_result, db, pc, i>>
       /\ load' # load => load' = load + 1 /\ Phase' = "Idle" /\ ops' = <<>>]_vars

C8_Witness ==
    /\ Phase = "Committed"
    /\ df.total_rows = 2 * batch_size + 1
    /\ Len(ops) = 8

\* C10: a create_table on a table that exists leaves the table's columns as
\* they are; when the table exists with the very schema of this DataFrame (an
\* earlier create_table made it), the call returns True unless the server or
\* the connection fails for a reason of its own.
C10_CreateIdempotent ==
    [][/\ db.table_cols # <<>> => db'.table_cols = db.table_cols
       /\ (/\ pc = "create_table"
           /\ db.table_cols = column_defs([df EXCEPT !.columns = clean_columns(df.columns)]))
            => \/ create_result' = "True"
               \/ create_result' = "False" /\ ops'[Len(ops')].err = "fault"]_vars

\* the second load's create_table succeeded on the table the first load made
\* and filled
C10_Witness ==
    /\ load = 2
    /\ pc = "insert_data"
    /\ create_result = "True"
    /\ db.table_cols = column_defs(df)
    /\ db.persisted # <<>>

(* ------------------------------------------------------------------ *)
(* Claims about the statements of one load                             *)
(* ------------------------------------------------------------------ *)
CreateNames == [k \in DOMAIN create_query.defs |-> create_query.defs[k][1]]

\* C12: once insert_data has built its statement, the identifiers it lists
\* are those of the load's CREATE TABLE statement, in the same order, they are
\* the normalized identifiers of the uploaded table, the statement names the
\* same table, and it has one placeholder per column.
C12_InsertNamesAreCreateNames ==
    insert_query # NoInsertQuery =>
        /\ insert_query.table = create_query.table
        /\ insert_query.columns = CreateNames
        /\ insert_query.columns = clean_columns(file.columns)
        /\ insert_query.placeholders = Len(CreateNames)

\* a batch was inserted under identifiers that normalization changed
C12_Witness ==
    /\ insert_query # NoInsertQuery
    /\ insert_query.columns # file.columns
    /\ \E k \in DOMAIN ops : ops[k].op = "executemany" /\ ops[k].err = ""

\* the loader is running: create_table or insert_data has been called and
\* has not returned
InEngine == pc \in {"create_table", "insert_data", "for"}

\* C13: no step of create_table or insert_data (the type inference they
\* call included) changes the caller's DataFrame: identifiers, column order
\* and cells are after the step what they were before it.
C13_TableReadOnly == [][InEngine => df' = df]_vars

\* C13, amended: create_table replaces each label of the caller's DataFrame
\* by its normalized form, position by position; nothing else of the
\* DataFrame changes, and insert_data changes nothing of it.
C13_OnlyLabelsRewritten ==
    [][InEngine =>
          /\ df'.series = df.series
          /\ df'.total_rows = df.total_rows
          /\ df'.odd = df.odd
          /\ DOMAIN df'.columns = DOMAIN df.columns
          /\ \A k \in DOMAIN df.columns :
                df'.columns[k] = IF pc = "create_table"
                                 THEN clean_column(df.columns[k])
                                 ELSE df.columns[k]]_vars

\* create_table has returned and the caller's DataFrame carries other labels
\* than the file it was read from, over the same columns
C13_Witness ==
    /\ create_result = "True"
    /\ df.columns # file.columns
    /\ df.columns[1] # df.columns[2]
    /\ df.series = file.series

(* ------------------------------------------------------------------ *)
(* Claims about failed and restarted loads                             *)
(* ------------------------------------------------------------------ *)
\* C17: the rows of a batch whose commit failed never become durable: a step
\* adds to the persisted rows nothing, or the one batch whose commit it has
\* just made successfully; no create_table and no commit of another batch
\* persists rows left uncommitted by a failed commit.
C17_FailedCommitNeverDurable ==
    [][\/ db'.persisted = db.persisted
       \/ /\ pc = "for"
          /\ db'.persisted = Append(db.persisted, BatchSlice(i, df.total_rows))
          /\ ops'[Len(ops')] =
                Call("commit", "", i, BatchSlice(i, df.total_rows)[2])]_vars

\* the batches a load committed, and how often the table holds a batch
CommittedIn(log) ==
    {<<log[p].lo, log[p].hi>> : p \in {q \in DOMAIN log :
        log[q].op = "commit" /\ log[q].err = "" /\ log[q].hi > log[q].lo}}
TimesPersisted(b) == Cardinality({p \in DOMAIN db.persisted : db.persisted[p] = b})
\* the load failed at a batch after the first
FailedAtLaterBatch(log) ==
    /\ Len(log) > 0
    /\ InsertCall(log[Len(log)])
    /\ log[Len(log)].err # ""
    /\ log[Len(log)].lo >= batch_size

\* C18: in the first load after a load that failed at batch k >= 1, the
\* batches are submitted from row offset 0 again, every batch that both loads
\* have committed is held twice by the table, and when the restarted load has
\* succeeded that is so for each of the batches 0..k-1 of the failed one.
C18_RestartRepeatsCommittedBatches ==
    (Len(prior) = 1 /\ FailedAtLaterBatch(prior[1])) =>
        /\ Len(Submitted) > 0 => Submitted[1].lo = 0
        /\ \A b \in CommittedIn(prior[1]) \cap CommittedIn(ops) : TimesPersisted(b) = 2
        /\ insert_result = "True" =>
              /\ CommittedIn(prior[1]) \subseteq CommittedIn(ops)
              /\ RowsOfBatch(0) \in CommittedIn(prior[1])

\* the restarted load has succeeded and the table holds the first batch twice
C18_Witness ==
    /\ Len(prior) = 1
    /\ FailedAtLaterBatch(prior[1])
    /\ insert_result = "True"
    /\ TimesPersisted(RowsOfBatch(0)) = 2

(* ------------------------------------------------------------------ *)
(* Claims about the sessions                                           *)
(* ------------------------------------------------------------------ *)
OpenSessions == {k \in DOMAIN uploaders : uploaders[k].open}
Released(k) == close(uploaders[k]) = uploaders[k]
LoadEnded == load > 0 /\ pc = "ui"

\* C14: while a load runs exactly one session opened in this UI session is
\* open, and after a load has completed or failed every session that was
\* opened is eventually released by close().
C14_SessionsReleased ==
    /\ [](InEngine => Cardinality(OpenSessions) = 1)
    /\ LoadEnded ~> (\A k \in DOMAIN uploaders : Released(k))

\* C15: the stored uploader is always one whose connect() returned True, and
\* create_table and insert_data run only while such an uploader is stored: an
\* uploader whose connect() returned False is neither stored nor used.
C15_OnlyConnectedUploaders ==
    /\ stored # 0 => stored \in DOMAIN uploaders /\ uploaders[stored].connected
    /\ (InEngine \/ load > 0) => stored # 0

\* a load ran to the end after a first connect attempt had failed
C15_Witness ==
    /\ Len(uploaders) >= 2
    /\ ~uploaders[1].connected
    /\ stored = 2
    /\ insert_result = "True"

LastConnected(us) ==
    IF \E k \in DOMAIN us : us[k].connected
    THEN CHOOSE k \in DOMAIN us :
            us[k].connected /\ \A j \in DOMAIN us : us[j].connected => j <= k
    ELSE 0

\* C19: the stored uploader is after every step the most recent one whose
\* connect() returned True, so a failed attempt leaves the stored uploader in
\* place and a successful one replaces it; a connect attempt leaves every
\* uploader built before as it was (close() is not called on it), and the
\* stored uploader does not change while a load runs.
C19_FailedConnectKeepsUploader ==
    [][/\ stored' = LastConnected(uploaders')
       /\ InEngine => stored' = stored
       /\ Len(uploaders') > Len(uploaders) =>
             /\ SubSeq(uploaders', 1, Len(uploaders)) = uploaders
             /\ stored' = IF uploaders'[Len(uploaders')].connected
                          THEN Len(uploaders') ELSE stored]_vars

\* a load runs on the first uploader after a second connect attempt failed
C19_Witness ==
    /\ Len(uploaders) >= 2
    /\ uploaders[1].connected
    /\ ~uploaders[2].connected
    /\ stored = 1
    /\ pc = "for"

(* ------------------------------------------------------------------ *)
(* Claims about the value preparation                                  *)
(* ------------------------------------------------------------------ *)
\* the documented rules, by the class of the cell
DocumentedValue(v) ==
    CASE v.kind \in {"None", "nan", "NaT"} -> "None"
      [] v.kind \in {"datetime", "Timestamp"} -> "%Y-%m-%d %H:%M:%S"
      [] v.kind = "date" -> "%Y-%m-%d"
      [] v.kind = "Decimal" -> "float"
      [] v.kind = "np.integer" -> "int"
      [] v.kind = "np.floating" -> "float"
      [] v.kind \in {"dict", "list", "tuple"} -> "json"
      [] OTHER -> v.kind

\* C11: _prepare_value returns, without raising, what the documented rules
\* give for the cell: NULL for a missing value, the timestamp format for a
\* datetime, the date format for a date, a plain number for a decimal or a
\* numpy number, the JSON text for every dict and every list of any length,
\* and the value itself otherwise.
C11_PreparedByDocumentedRules ==
    Returned => prep_result = Outcome("", DocumentedValue(value))

(* ------------------------------------------------------------------ *)
(* Claims about the name normalization                                 *)
(* ------------------------------------------------------------------ *)
\* every maximal run of non-word characters replaced by one underscore
RECURSIVE CollapseRuns(_)
CollapseRuns(s) ==
    IF s = <<>> THEN <<>>
    ELSE IF IsWordChar(s[1]) THEN <<s[1]>> \o CollapseRuns(Tail(s))
    ELSE IF Len(s) > 1 /\ ~IsWordChar(s[2]) THEN CollapseRuns(Tail(s))
    ELSE <<"_">> \o CollapseRuns(Tail(s))

====
